---- MODULE Spec2Model ----
(***************************************************************************)
(* Model of the value object cache of src/src/index.ts: the tree of        *)
(* CacheTreeNode objects below #rootNode, the instances the cache has      *)
(* stored (held through WeakRef), the FinalizationRegistry with its held   *)
(* paths, and the garbage collector of the host.                           *)
(*                                                                         *)
(* A path key is a pair <<kind, n>>:                                       *)
(*   <<"c", n>>  a constructor (0 is Array, 1.. are ValueObject classes)   *)
(*   <<"p", n>>  a primitive: the numbers 1 and 2, the string '1', NaN,    *)
(*               +0 and -0                                                 *)
(*   <<"i", n>>  the object with identity n (an interned instance)         *)
(* A raw input value is a key of kind "p" or "i", or                       *)
(*   <<"a", s>>  a caller-built array whose elements are the raw values s  *)
(*   <<"x", 0>>  a value that is no primitive, array or ValueObject        *)
(*   <<"m", s>>  a plain object written {k: v, ...}, s its entries in the  *)
(*               order they were inserted; no primitive, array or          *)
(*               ValueObject either                                        *)
(***************************************************************************)
EXTENDS Naturals, Sequences, FiniteSets, Bags, TLC

VARIABLES
    calls,      \* how many calls of the public methods have been made
    tree,       \* path -> CacheTreeNode, the nodes linked from #rootNode
    inst,       \* every object a factory has produced, by identity 1..Len(inst)
    registry,   \* bag of registrations [target, path] not yet called back
    held,       \* identities the callers hold a strong reference to
    last        \* what the latest operation was and how it ended

vars == <<calls, tree, inst, registry, held, last>>

(* ---- bounds ---- *)
MaxCalls == 2       \* calls of getArrayByValue and getObjectByValue
MaxInst == 2        \* objects ever produced by factories
DeepCalls == 3      \* the same two, where the calls are for [] and [1] alone
DeepInst == 3

(* ---- the values of the model ---- *)
ArrayCtor == <<"c", 0>>
ClassA == <<"c", 1>>
ClassB == <<"c", 2>>
Classes == {ClassA, ClassB}
Ctors == {ArrayCtor} \cup Classes
Prims == {<<"p", 1>>, <<"p", 2>>}
Invalid == <<"x", 0>>
Num1 == <<"p", 1>>
Str1 == <<"p", 3>>
NaN == <<"p", 4>>
PosZero == <<"p", 5>>
NegZero == <<"p", 6>>

(* ---- CacheTreeNode ---- *)
NullMap == [null |-> TRUE, keys |-> {}]
NewMap == [null |-> FALSE, keys |-> {}]
NewNode == [children |-> NullMap, instanceRef |-> 0]
RootPath == <<>>

\* a Map that tells -0 from +0
MapKeySameValue(key) == key

\* The key a Map files a value under. Map compares keys by SameValueZero:
\* set() turns -0 into +0 and get(), set() and delete() find NaN, so every
\* value but -0 is its own key.
MapKey(key) == IF key = NegZero THEN PosZero ELSE key

\* the Map keys the components of path are filed under, one Map per level
RECURSIVE Keys(_)
Keys(path) ==
    IF path = <<>> THEN <<>> ELSE <<MapKey(Head(path))>> \o Keys(Tail(path))

\* A node is named by the Map keys that lead to it from the root: the node
\* the first d of the keys lead to
Prefix(keys, d) == SubSeq(keys, 1, d)

\* the node a whole path leads to
NodeOf(path) == Keys(path)

\* node.children?.get(key) is a node
HasChild(t, p, key) == ~t[p].children.null /\ MapKey(key) \in t[p].children.keys

\* a deref() that still yields a collected target
DerefOfCollected(in, ref) == ref

\* a WeakRef target that is never found again
DerefNothing(in, ref) == 0

\* WeakRef.deref(): the target, or 0 (undefined) once it is collected
Deref(in, ref) == IF ref # 0 /\ in[ref].alive THEN ref ELSE 0

\* a set() into a new Map, which drops the children the node had
SetChildInNewMap(t, p, key) ==
    LET q == Append(p, MapKey(key))
        keep == {x \in DOMAIN t : Len(x) <= Len(p) \/ Prefix(x, Len(p)) # p}
        n == [t[p] EXCEPT !.children.keys = {MapKey(key)}]
    IN  [x \in keep \cup {q} |-> IF x = q THEN NewNode ELSE IF x = p THEN n ELSE t[x]]

\* node.children.set(key, {children: null, instanceRef: null})
SetChild(t, p, key) ==
    LET q == Append(p, MapKey(key))
        n == [t[p] EXCEPT !.children.keys = @ \cup {MapKey(key)}]
    IN  [x \in DOMAIN t \cup {q} |-> IF x = q THEN NewNode ELSE IF x = p THEN n ELSE t[x]]

\* parentNode.children.delete(parentKey): the node and what hangs below it
\* are no longer linked from the root
DeleteChild(t, p, key) ==
    LET q == Append(p, MapKey(key))
        keep == {x \in DOMAIN t : ~(Len(x) >= Len(q) /\ Prefix(x, Len(q)) = q)}
    IN  [x \in keep |-> IF x = p THEN [t[p] EXCEPT !.children.keys = @ \ {MapKey(key)}]
                       ELSE t[x]]

(* ---- the FinalizationRegistry callback ---- *)

\* the first loop: how many keys of path lead to an existing node
RECURSIVE WalkedDepth(_, _, _)
WalkedDepth(t, path, d) ==
    IF d < Len(path) /\ HasChild(t, Prefix(path, d), path[d + 1])
    THEN WalkedDepth(t, path, d + 1)
    ELSE d

\* if (currentNode.children && !currentNode.children.size) currentNode.children = null
ClearEmptyChildren(node) ==
    IF ~node.children.null /\ node.children.keys = {}
    THEN [node EXCEPT !.children = NullMap]
    ELSE node

\* the callback clearing the reference without asking deref() first
ClearAnyRef(in, node) == [node EXCEPT !.instanceRef = 0]

\* if (currentNode.instanceRef && !currentNode.instanceRef.deref()) currentNode.instanceRef = null
ClearDeadRef(in, node) ==
    IF node.instanceRef # 0 /\ Deref(in, node.instanceRef) = 0
    THEN [node EXCEPT !.instanceRef = 0]
    ELSE node

\* the callback's break looking at the children alone
StillUsedByChildren(node) == ~node.children.null

\* the callback's break looking at the instance alone
StillUsedByInstance(node) == node.instanceRef # 0

\* if (currentNode.children || currentNode.instanceRef) break
StillUsed(node) == ~node.children.null \/ node.instanceRef # 0

\* a second loop that unlinks the deepest walked node without looking at it
PruneUnchecked(t, in, path, d) ==
    IF d = 0 THEN t ELSE DeleteChild(t, Prefix(path, d - 1), path[d])

\* the second loop, over the walked nodes deepest first, from the node at depth d
RECURSIVE PruneWalked(_, _, _, _)
PruneWalked(t, in, path, d) ==
    LET p == Prefix(path, d)
        node == ClearDeadRef(in, ClearEmptyChildren(t[p]))
        t1 == [t EXCEPT ![p] = node]
    IN  IF StillUsed(node) THEN t1
        ELSE IF d = 0 THEN t1
        ELSE PruneWalked(DeleteChild(t1, Prefix(path, d - 1), path[d]), in, path, d - 1)

FinalizationCallback(t, in, path) ==
    PruneWalked(t, in, Keys(path), WalkedDepth(t, Keys(path), 0))

(* ---- #get ---- *)

\* the for loop of #get: the nodes of path below depth d, created where missing
RECURSIVE WalkCreate(_, _, _)
WalkCreate(t, path, d) ==
    IF d = Len(path) THEN t
    ELSE LET p == Prefix(path, d)
             key == path[d + 1]
             t1 == IF t[p].children.null THEN [t EXCEPT ![p].children = NewMap] ELSE t
             t2 == IF HasChild(t1, p, key) THEN t1 ELSE SetChild(t1, p, key)
         IN  WalkCreate(t2, path, d + 1)

\* new WeakRef(instance) into the terminal node
StoreRef(t, path, id) == [t EXCEPT ![NodeOf(path)].instanceRef = id]

\* a registration made twice
RegisterTwice(reg, id, path) ==
    reg (+) SetToBag({[target |-> id, path |-> path]})
        (+) SetToBag({[target |-> id, path |-> path]})

\* this.#finalizationRegistry.register(instance, path)
Register(reg, id, path) == reg (+) SetToBag({[target |-> id, path |-> path]})

\* a path that leaves the constructor out
PathOfValuesOnly(constructor, values) == <<ArrayCtor>> \o values

\* a path cut after its first value
PathOfFirstValue(constructor, values) ==
    <<constructor>> \o (IF values = <<>> THEN <<>> ELSE <<values[1]>>)

\* a constructor check that never fires
NeverMismatch(f, constructor) == FALSE

\* const path = [constructor, ...values]
PathOf(constructor, values) == <<constructor>> \o values

\* instance.constructor !== constructor
Mismatch(f, constructor) == f.ctor # constructor

\* The memory m is [tree, inst, registry]. A factory f is [throws, ctor]: it
\* throws, or produces a new object whose constructor is f.ctor and whose
\* elements (an array's) are elems. Of each object the model keeps, besides,
\* the path it was stored under (<<>> when it was not stored), whether it is
\* alive, and whether a callback has unlinked the node it was stored at.
Get(m, constructor, values, f, elems) ==
    LET path == PathOf(constructor, values)
        t1 == WalkCreate(m.tree, Keys(path), 0)
        cachedInstance == Deref(m.inst, t1[NodeOf(path)].instanceRef)
        id == Len(m.inst) + 1
        instance == [ctor |-> f.ctor, elems |-> elems, path |-> <<>>, alive |-> TRUE,
                     pruned |-> FALSE]
    IN  IF cachedInstance # 0
        THEN [m |-> [m EXCEPT !.tree = t1], outcome |-> "hit", ret |-> cachedInstance,
              made |-> 0, path |-> path, values |-> values]
        ELSE IF f.throws
        THEN [m |-> [m EXCEPT !.tree = t1], outcome |-> "throws", ret |-> 0,
              made |-> 0, path |-> path, values |-> values]
        ELSE IF Mismatch(f, constructor)
        THEN [m |-> [m EXCEPT !.tree = t1, !.inst = Append(@, instance)],
              outcome |-> "TypeError", ret |-> 0, made |-> id, path |-> path,
              values |-> values]
        ELSE [m |-> [tree |-> StoreRef(t1, path, id),
                     inst |-> Append(m.inst, [instance EXCEPT !.path = path]),
                     registry |-> Register(m.registry, id, path)],
              outcome |-> "miss", ret |-> id, made |-> id, path |-> path,
              values |-> values]

(* ---- getByValue, getArrayByValue, getObjectByValue ---- *)

IsPrimitive(v) == v[1] = "p"
IsArray(in, v) == v[1] = "a" \/ (v[1] = "i" /\ in[v[2]].ctor = ArrayCtor)
IsValueObject(in, v) == v[1] = "i" /\ in[v[2]].ctor \in Classes
ElementsOf(in, v) == IF v[1] = "a" THEN v[2] ELSE in[v[2]].elems

ArrayFactory == [throws |-> FALSE, ctor |-> ArrayCtor]

RECURSIVE GetByValue(_, _), GetArrayByValue(_, _), MapValues(_, _, _, _)

\* values.map((v) => this.getByValue(v)), element k onwards; array holds the
\* results so far. A throw ends the map.
MapValues(m, values, k, array) ==
    IF k > Len(values) THEN [m |-> m, ok |-> TRUE, array |-> array]
    ELSE LET r == GetByValue(m, values[k])
         IN  IF r.ok THEN MapValues(r.m, values, k + 1, Append(array, r.key))
             ELSE [m |-> r.m, ok |-> FALSE, array |-> array]

GetArrayByValue(m, values) ==
    LET a == MapValues(m, values, 1, <<>>)
    IN  IF a.ok THEN Get(a.m, ArrayCtor, a.array, ArrayFactory, a.array)
        ELSE [m |-> a.m, outcome |-> "invalid", ret |-> 0, made |-> 0, path |-> <<>>,
              values |-> <<>>]

GetByValue(m, value) ==
    IF IsPrimitive(value) THEN [m |-> m, ok |-> TRUE, key |-> value]
    ELSE IF IsArray(m.inst, value)
    THEN LET r == GetArrayByValue(m, ElementsOf(m.inst, value))
         IN  [m |-> r.m, ok |-> r.outcome # "invalid", key |-> <<"i", r.ret>>]
    ELSE IF IsValueObject(m.inst, value) THEN [m |-> m, ok |-> TRUE, key |-> value]
    ELSE [m |-> m, ok |-> FALSE, key |-> value]

GetObjectByValue(m, constructor, values, f) ==
    LET a == MapValues(m, values, 1, <<>>)
    IN  IF a.ok THEN Get(a.m, constructor, a.array, f, <<>>)
        ELSE [m |-> a.m, outcome |-> "invalid", ret |-> 0, made |-> 0, path |-> <<>>,
              values |-> <<>>]

(* ---- the garbage collector ---- *)

\* the objects a path names
InstKeys(path) == {path[k][2] : k \in {j \in 1..Len(path) : path[j][1] = "i"}}

\* a cache that holds no object strongly, not as a Map key or in a held path
RootsHeldOnly == held

\* What keeps an object from being collected: a caller's reference, being a
\* key of a children Map (Map holds its keys strongly), being part of a path
\* the registry holds for a callback it has not made; and being an element of
\* an array that is kept. The tree's WeakRef keeps nothing.
Roots ==
    held \cup UNION {InstKeys(p) : p \in DOMAIN tree}
         \cup UNION {InstKeys(r.path) : r \in BagToSet(registry)}

\* An interned array holds its elements (it is the mapped array, frozen). An
\* object a caller's factory makes is taken to hold none of its values: that
\* lets the collector do the most, and every behaviour of an object that does
\* hold them is among the ones explored.
RECURSIVE Closure(_)
Closure(S) ==
    LET more == S \cup UNION {InstKeys(inst[i].elems) : i \in S}
    IN  IF more = S THEN S ELSE Closure(more)

Reachable == Closure(Roots)

(* ---- what callers can pass ---- *)

\* a nested array written out by the caller: [1] and [invalid]
NestedArrays == {<<"a", <<e>>>> : e \in {<<"p", 1>>, Invalid}}

\* an element of the caller's array: a primitive, an object the caller holds
\* (an interned array or a ValueObject), a nested array, or an invalid value
Elements == Prims \cup {Invalid} \cup {<<"i", i>> : i \in held} \cup NestedArrays

\* the second element of a caller's array of two: 1, or an invalid value
SecondElements == {<<"p", 1>>, Invalid}

\* the arrays passed to getArrayByValue: of no, one and two elements
Arguments ==
    {<<>>} \cup {<<a>> : a \in Elements} \cup {<<a, b>> : a \in Elements, b \in SecondElements}

\* the values passed to getObjectByValue: none or one
Parameters == {<<>>} \cup {<<a>> : a \in Elements}

\* the factories a caller of getObjectByValue can pass: one that makes an
\* instance of some class, one that throws
Factories == [throws : {FALSE}, ctor : Classes] \cup {[throws |-> TRUE, ctor |-> ArrayCtor]}

Memory == [tree |-> tree, inst |-> inst, registry |-> registry]

\* walked is, of a callback, how many keys of its path led to a node
NoCall == [op |-> "none", ctor |-> ArrayCtor, values |-> <<>>, path |-> <<>>,
           outcome |-> "none", ret |-> 0, made |-> 0, walked |-> 0]

(* ---- the state machine ---- *)

Init ==
    /\ calls = 0
    /\ tree = [p \in {RootPath} |-> NewNode]
    /\ inst = <<>>
    /\ registry = EmptyBag
    /\ held = {}
    /\ last = NoCall

\* the effect of a call that ended as r, within the given numbers of calls
\* and objects; the caller keeps what it is returned
FinishWithin(maxCalls, maxInst, op, constructor, r) ==
    /\ calls < maxCalls
    /\ Len(r.m.inst) <= maxInst
    /\ calls' = calls + 1
    /\ tree' = r.m.tree
    /\ inst' = r.m.inst
    /\ registry' = r.m.registry
    /\ held' = IF r.ret # 0 THEN held \cup {r.ret} ELSE held
    /\ last' = [op |-> op, ctor |-> constructor, values |-> r.values, path |-> r.path,
                outcome |-> r.outcome, ret |-> r.ret, made |-> r.made, walked |-> 0]

Finish(op, constructor, r) == FinishWithin(MaxCalls, MaxInst, op, constructor, r)

CallGetArrayByValue ==
    \E values \in Arguments :
        Finish("getArrayByValue", ArrayCtor, GetArrayByValue(Memory, values))

CallGetObjectByValue ==
    \E constructor \in Classes, values \in Parameters, f \in Factories :
        Finish("getObjectByValue", constructor, GetObjectByValue(Memory, constructor, values, f))

\* a caller lets go of an object
Drop ==
    \E i \in held :
        /\ held' = held \ {i}
        /\ last' = NoCall
        /\ UNCHANGED <<calls, tree, inst, registry>>

\* the collector reclaims an object nothing keeps
Collect ==
    \E i \in 1..Len(inst) :
        /\ inst[i].alive
        /\ i \notin Reachable
        /\ inst' = [inst EXCEPT ![i].alive = FALSE]
        /\ last' = NoCall
        /\ UNCHANGED <<calls, tree, registry, held>>

\* parentNode?.children?.delete(parentKey) seen from the instances: those
\* whose node is linked in t and no longer in t1 have had their node unlinked
MarkPruned(in, t, t1) ==
    [i \in 1..Len(in) |->
        IF in[i].path # <<>> /\ NodeOf(in[i].path) \in DOMAIN t \ DOMAIN t1
        THEN [in[i] EXCEPT !.pruned = TRUE]
        ELSE in[i]]

\* the registry calls back for a collected target, with the path it holds
Finalize ==
    \E r \in BagToSet(registry) :
        /\ ~inst[r.target].alive
        /\ tree' = FinalizationCallback(tree, inst, r.path)
        /\ inst' = MarkPruned(inst, tree, tree')
        /\ registry' = registry (-) SetToBag({r})
        /\ last' = [NoCall EXCEPT !.op = "finalize", !.ret = r.target, !.path = r.path,
                                  !.walked = WalkedDepth(tree, Keys(r.path), 0)]
        /\ UNCHANGED <<calls, held>>

Next ==
    \/ CallGetArrayByValue
    \/ CallGetObjectByValue
    \/ Drop
    \/ Collect
    \/ Finalize

Spec == Init /\ [][Next]_vars

(* ---- the cache asked for values of every kind ---- *)

\* the primitives that SameValueZero and === or Object.is tell apart differently
ZeroPrims == {Num1, Str1, NaN, PosZero, NegZero}

\* {a: 1, b: 2} and {b: 2, a: 1}
MapAB == <<"m", <<<<"a", 1>>, <<"b", 2>>>>>>
MapBA == <<"m", <<<<"b", 2>>, <<"a", 1>>>>>>
Mappings == {MapAB, MapBA}

\* what is passed to getByValue: a primitive, an array of one primitive, a
\* plain object, an array of one plain object, an object the caller holds
Values ==
    {NaN} \cup {<<"a", <<v>>>> : v \in ZeroPrims \cup {MapAB}} \cup Mappings
          \cup {<<"i", i>> : i \in held}

\* getByValue called from outside: it returns the primitive or ValueObject it
\* was given, or what getArrayByValue returns, or throws the TypeError
CallGetByValue ==
    \E value \in Values :
        LET r == GetByValue(Memory, value)
            object == r.ok /\ r.key[1] = "i"
        IN  Finish("getByValue", ArrayCtor,
                   [m |-> r.m,
                    outcome |-> IF ~r.ok THEN "invalid"
                                ELSE IF object THEN "returned" ELSE "primitive",
                    ret |-> IF object THEN r.key[2] ELSE 0,
                    made |-> 0, path |-> <<>>, values |-> <<>>])

NextValues ==
    \/ CallGetByValue
    \/ Drop
    \/ Collect
    \/ Finalize

SpecValues == Init /\ [][NextValues]_vars

(* ---- the cache asked for [] and [1] alone, more often ---- *)

DeepArguments == {<<>>, <<Num1>>}

CallDeep ==
    \E values \in DeepArguments :
        FinishWithin(DeepCalls, DeepInst, "getArrayByValue", ArrayCtor,
                     GetArrayByValue(Memory, values))

NextDeep ==
    \/ CallDeep
    \/ Drop
    \/ Collect
    \/ Finalize

SpecDeep == Init /\ [][NextDeep]_vars

(* ---- vocabulary of the properties ---- *)

Ids == 1..Len(inst)
Stored(i) == inst[i].path # <<>>
Live(i) == inst[i].alive
StoredLive == {i \in Ids : Stored(i) /\ Live(i)}
StoredDead == {i \in Ids : Stored(i) /\ ~Live(i)}
IsCall == last.op \in {"getArrayByValue", "getObjectByValue"}
Pending(i) == \E r \in BagToSet(registry) : r.target = i
EmptyTree == [p \in {RootPath} |-> NewNode]
HoldsLive(p) == Deref(inst, tree[p].instanceRef) # 0

\* the call a caller makes to ask again for the value of instance i, with factory f
Lookup(i, f) ==
    IF inst[i].ctor = ArrayCtor
    THEN GetArrayByValue(Memory, inst[i].elems)
    ELSE GetObjectByValue(Memory, inst[i].ctor, Tail(inst[i].path), f)

MakerOf(constructor) == [throws |-> FALSE, ctor |-> constructor]

(* ---- C1 ---- *)

\* C1: whatever calls, collections and callbacks (stale ones too) have
\* happened, a call with the path of an instance that is not collected
\* returns that instance and the factory makes nothing, whatever factory
\* is passed.
C1_LiveInstanceIsReturned ==
    \A x \in StoredLive :
        \A f \in (IF inst[x].ctor = ArrayCtor THEN {ArrayFactory} ELSE Factories) :
            LET r == Lookup(x, f)
            IN  r.outcome = "hit" /\ r.ret = x /\ r.made = 0 /\ r.m.inst = inst

\* a stale callback, for an earlier instance of the same path, has just run
\* while its successor is alive
C1_Witness ==
    /\ last.op = "finalize"
    /\ \E x \in StoredLive : inst[x].path = last.path /\ x # last.ret

(* ---- C2 ---- *)

NoLiveAt(path) == ~\E y \in StoredLive : inst[y].path = path
Callable(path) == \A j \in InstKeys(path) : Live(j)

\* C2: a call with the path of a collected instance never returns it: it
\* returns a live instance, and when no live successor is stored under the
\* path it is a miss that makes a new instance, stores it at the terminal
\* node and registers it with the path. What a call has just returned is alive.
C2_CollectedIsNeverReturned ==
    /\ \A x \in StoredDead :
        Callable(inst[x].path) =>
            LET r == Lookup(x, MakerOf(inst[x].ctor))
                P == inst[x].path
            IN  /\ r.ret # x /\ r.ret # 0
                /\ r.m.inst[r.ret].alive
                /\ NoLiveAt(P) =>
                    /\ r.outcome = "miss"
                    /\ r.ret > Len(inst)
                    /\ r.m.tree[P].instanceRef = r.ret
                    /\ BagIn([target |-> r.ret, path |-> P], r.m.registry)
    /\ IsCall /\ last.ret # 0 => Live(last.ret)

\* one collected instance whose callback has run and pruned its node, and
\* another whose dead reference is still in its terminal node
C2_Witness ==
    \E x, y \in StoredDead :
        /\ inst[x].path \notin DOMAIN tree /\ ~Pending(x)
        /\ inst[y].path \in DOMAIN tree /\ tree[inst[y].path].instanceRef = y /\ Pending(y)

(* ---- C3 ---- *)

\* C3: once every instance the cache stored has been collected and every
\* registered callback has been delivered, the tree is the empty root again.
C3_NoLeakAtQuiescence ==
    (StoredLive = {} /\ registry = EmptyBag) => tree = EmptyTree

(* ---- C4 ---- *)

\* C4: the node of every stored instance that is not collected holds it and
\* is linked from the root through all of its ancestors, whatever callbacks
\* have run.
C4_LiveNodesStayLinked ==
    \A x \in StoredLive :
        LET P == inst[x].path
        IN  /\ \A d \in 0..(Len(P) - 1) :
                /\ Prefix(P, d) \in DOMAIN tree
                /\ HasChild(tree, Prefix(P, d), P[d + 1])
            /\ P \in DOMAIN tree
            /\ tree[P].instanceRef = x

\* a callback has just pruned its terminal node below a constructor node
\* that leads to a live instance as well
C4_Witness ==
    /\ last.op = "finalize"
    /\ last.path \notin DOMAIN tree
    /\ \E x \in StoredLive : inst[x].path # last.path /\ inst[x].path[1] = last.path[1]

(* ---- C5 ---- *)

\* C5: every node but the root has a child, or holds a reference to an
\* instance that is alive or whose callback is still to come.
C5_NodeInvariant ==
    \A p \in DOMAIN tree \ {RootPath} :
        \/ ~tree[p].children.null /\ tree[p].children.keys # {}
        \/ /\ tree[p].instanceRef # 0
           /\ Live(tree[p].instanceRef) \/ Pending(tree[p].instanceRef)

(* ---- C6 ---- *)

\* C6: a miss whose factory makes an instance of another constructor fails:
\* nothing is returned, the instance is in no node and in no registration,
\* then and ever after, and the same call with a factory of the requested
\* constructor right after it is a miss that stores and returns an instance
\* of that constructor. What is stored or returned has the constructor asked for.
C6_MismatchIsRejected ==
    /\ \A i \in Ids : ~Stored(i) =>
            /\ \A p \in DOMAIN tree : tree[p].instanceRef # i
            /\ ~Pending(i)
    /\ \A i \in Ids : Stored(i) => inst[i].ctor = inst[i].path[1]
    /\ IsCall /\ last.ret # 0 => inst[last.ret].ctor = last.ctor
    /\ last.outcome = "TypeError" =>
            /\ last.ret = 0
            /\ last.made \in Ids /\ ~Stored(last.made)
            /\ inst[last.made].ctor # last.ctor
            /\ LET r == Get(Memory, last.ctor, last.values, MakerOf(last.ctor), <<>>)
               IN  /\ r.outcome = "miss"
                   /\ r.ret # last.made
                   /\ r.m.inst[r.ret].ctor = last.ctor
                   /\ r.m.tree[last.path].instanceRef = r.ret

\* a call has just failed on a factory of the wrong constructor
C6_Witness == last.outcome = "TypeError" /\ last.made \in Ids

(* ---- C7 ---- *)

\* C7: a call that fails in its factory (wrong constructor, or a throw)
\* leaves the tree as it was before the call.
C7_FailedCallLeavesTree ==
    [][(calls' = calls + 1 /\ last'.outcome \in {"TypeError", "throws"}) => tree' = tree]_vars

(* ---- C8 ---- *)

\* C8: a call given a value that holds an invalid component fails and leaves
\* the tree as it was before the call.
C8_InvalidInputLeavesTree ==
    [][(calls' = calls + 1 /\ last'.outcome = "invalid") => tree' = tree]_vars

(* ---- C9 ---- *)

SameValues(x, y) == Tail(inst[x].path) = Tail(inst[y].path)

\* C9: a call returns an instance of the constructor it asked for, stored
\* under that constructor's node with the values asked for, so calls for
\* two constructors with the same values never share an instance or a
\* terminal node; and after a call, the live instances stored with the same
\* values under the other constructors (Array among them) are still what a
\* call for them returns.
C9_TypeDiscrimination ==
    /\ \A i \in Ids : Stored(i) => inst[i].path[1] = inst[i].ctor
    /\ (IsCall /\ last.ret # 0) =>
            /\ inst[last.ret].ctor = last.ctor
            /\ inst[last.ret].path = <<last.ctor>> \o last.values
            /\ tree[<<last.ctor>> \o last.values].instanceRef = last.ret
            /\ \A y \in StoredLive :
                    (inst[y].ctor # last.ctor /\ SameValues(y, last.ret)) =>
                        /\ y # last.ret
                        /\ inst[y].path # inst[last.ret].path
                        /\ tree[inst[y].path].instanceRef = y
                        /\ Lookup(y, MakerOf(inst[y].ctor)).ret = y

\* a call for one class has just returned, while a live instance of the
\* other class is stored with the same values
C9_Witness ==
    /\ last.op = "getObjectByValue" /\ last.ret # 0
    /\ last.values # <<>>
    /\ \E y \in StoredLive :
        /\ inst[y].ctor \in Classes \ {last.ctor}
        /\ SameValues(y, last.ret)

(* ---- C10 ---- *)

IsLiveArray(i) == i \in StoredLive /\ inst[i].ctor = ArrayCtor

\* C10: the array getArrayByValue returns has exactly the elements asked
\* for, so sequences that differ in length or in an element never get the
\* same instance; and after the call every live array, also one whose
\* sequence is a prefix or an extension of the one asked for, is still what
\* a call for its own sequence returns.
C10_DistinctSequences ==
    (last.op = "getArrayByValue" /\ last.ret # 0) =>
        /\ inst[last.ret].ctor = ArrayCtor
        /\ inst[last.ret].elems = last.values
        /\ \A x \in Ids : IsLiveArray(x) =>
                /\ inst[x].elems # last.values => x # last.ret
                /\ tree[inst[x].path].instanceRef = x
                /\ Lookup(x, ArrayFactory).ret = x

\* a call has just returned a live array whose node lies below the node of
\* another live array: a sequence and a proper prefix of it, both interned,
\* the prefix's node holding an instance and children
C10_Witness ==
    /\ last.op = "getArrayByValue" /\ last.ret # 0
    /\ \E x \in Ids :
        /\ IsLiveArray(x) /\ x # last.ret
        /\ Len(inst[x].path) < Len(last.path)
        /\ Prefix(last.path, Len(inst[x].path)) = inst[x].path
        /\ ~tree[inst[x].path].children.null
        /\ tree[inst[x].path].instanceRef = x

(* ---- C11 ---- *)

\* the value of key k as a caller writes it out afresh: an interned array
\* becomes a new array of the written-out elements, all the way down
RECURSIVE Written(_)
Written(k) ==
    IF k[1] = "i" /\ inst[k[2]].ctor = ArrayCtor
    THEN <<"a", [j \in 1..Len(inst[k[2]].elems) |-> Written(inst[k[2]].elems[j])]>>
    ELSE k

HasNestedArray(x) ==
    \E j \in 1..Len(inst[x].elems) :
        inst[x].elems[j][1] = "i" /\ inst[inst[x].elems[j][2]].ctor = ArrayCtor

\* C11: while an interned array that has arrays nested in it, or that a
\* call has just returned, is alive, getArrayByValue of a freshly written
\* structurally equal value, nested arrays written out too, returns that
\* very instance and makes nothing; and every array nested in it is the
\* instance getArrayByValue returns for that nested sequence written out.
C11_NestedSharing ==
    \A x \in Ids : (IsLiveArray(x) /\ (HasNestedArray(x) \/ x = last.ret)) =>
        /\ LET r == GetArrayByValue(Memory, Written(<<"i", x>>)[2])
           IN  r.outcome = "hit" /\ r.ret = x /\ r.m.inst = inst
        /\ \A j \in 1..Len(inst[x].elems) :
              LET e == inst[x].elems[j]
              IN  (e[1] = "i" /\ inst[e[2]].ctor = ArrayCtor) =>
                      /\ IsLiveArray(e[2])
                      /\ GetArrayByValue(Memory, Written(e)[2]).ret = e[2]

\* a second call for a nested value has just returned the array of the
\* first, which the caller still holds
C11_Witness ==
    /\ last.op = "getArrayByValue" /\ last.outcome = "hit"
    /\ HasNestedArray(last.ret)
    /\ last.ret \in held

(* ---- C12 ---- *)

\* what kind of primitive p is: its type, whether it is NaN, its magnitude
\* (a string's digits) and its sign
Describe(p) ==
    [type |-> IF p = Str1 THEN "string" ELSE "number",
     nan |-> p = NaN,
     magnitude |-> IF p \in {Num1, Str1} THEN 1 ELSE IF p = <<"p", 2>> THEN 2 ELSE 0,
     negative |-> p = NegZero]

\* SameValueZero as the language defines it: the same type, and both NaN,
\* or neither NaN and the same magnitude with, but for zero, the same sign
SameValueZero(a, b) ==
    LET x == Describe(a)
        y == Describe(b)
    IN  /\ x.type = y.type
        /\ \/ x.nan /\ y.nan
           \/ /\ ~x.nan /\ ~y.nan
              /\ x.magnitude = y.magnitude
              /\ x.magnitude = 0 \/ x.negative = y.negative

NodesHolding(t, i) == {q \in DOMAIN t : t[q].instanceRef = i}

\* C12: of two calls, one after the other with the first result kept, for
\* the same constructor and one primitive each, the second adds no node and
\* returns the instance of the first exactly when the two primitives are
\* SameValueZero equal (NaN and NaN, +0 and -0, else the same type and
\* value); otherwise the two instances are held by two different nodes, as
\* for the number 1 and the string '1'.
C12_SameValueZeroPaths ==
    \A a, b \in ZeroPrims :
        \A constructor \in {ArrayCtor, ClassA} :
            LET f == MakerOf(constructor)
                r1 == Get(Memory, constructor, <<a>>, f, <<a>>)
                r2 == Get(r1.m, constructor, <<b>>, f, <<b>>)
            IN  /\ r1.ret # 0 /\ r2.ret # 0
                /\ SameValueZero(a, b) =>
                      /\ r2.outcome = "hit" /\ r2.ret = r1.ret
                      /\ DOMAIN r2.m.tree = DOMAIN r1.m.tree
                /\ ~SameValueZero(a, b) =>
                      /\ r2.ret # r1.ret
                      /\ NodesHolding(r2.m.tree, r1.ret) # {}
                      /\ NodesHolding(r2.m.tree, r2.ret) # {}
                      /\ NodesHolding(r2.m.tree, r1.ret) # NodesHolding(r2.m.tree, r2.ret)

\* the live array [-0] or [+0] is stored, at a node the key +0 leads to,
\* and so is the live array [NaN]
C12_Witness ==
    /\ \E x \in StoredLive :
          /\ inst[x].path \in {<<ArrayCtor, NegZero>>, <<ArrayCtor, PosZero>>}
          /\ tree[<<ArrayCtor, PosZero>>].instanceRef = x
    /\ \E y \in StoredLive : inst[y].path = <<ArrayCtor, NaN>>

(* ---- C13 ---- *)

FactoryInvoked == last.outcome \in {"miss", "TypeError", "throws"}

\* the instances stored under the path of the latest call before that call
StoredBefore == {x \in Ids \ {last.made} : Stored(x) /\ inst[x].path = last.path}

\* C13 as stated: when a call invokes the factory for a path, every
\* instance an earlier invocation stored under that path has since had its
\* terminal node unlinked by a finalization callback.
C13_PrunedBetweenInvocations ==
    (IsCall /\ FactoryInvoked) => \A x \in StoredBefore : inst[x].pruned

\* C13, amended: when a call invokes the factory for a path, every instance
\* an earlier invocation stored under that path has been collected; its
\* terminal node need not have been unlinked.
C13_CollectedBetweenInvocations ==
    (IsCall /\ FactoryInvoked) => \A x \in StoredBefore : ~Live(x)

\* the factory has just been invoked for a path under which an earlier
\* instance was stored, now collected, whose node no callback has unlinked
C13_Witness ==
    /\ IsCall /\ last.outcome = "miss"
    /\ \E x \in StoredBefore : ~Live(x) /\ ~inst[x].pruned /\ Pending(x)

(* ---- C14 ---- *)

\* C14: the cache asked for the plain object {a: 1, b: 2} and then for
\* {b: 2, a: 1}, the same pairs inserted in another order, returns an
\* instance both times, and the same one.
C14_MappingOrderIndependence ==
    LET r1 == GetByValue(Memory, MapAB)
        r2 == GetByValue(r1.m, MapBA)
    IN  /\ r1.ok /\ r1.key[1] = "i"
        /\ r2.ok /\ r2.key = r1.key

(* ---- C15 ---- *)

\* the instances alive and stored under the path of the callback just made
Successors == {y \in StoredLive : inst[y].path = last.path}

\* C15: right after the callback for a collected instance of path P, an
\* instance stored under P since and still alive is still referenced by P's
\* terminal node, that node and all its ancestors are still linked, and a
\* call with P returns it without the factory making anything, whatever the
\* factory.
C15_StaleCallbackTolerated ==
    last.op = "finalize" =>
        \A y \in Successors :
            LET P == NodeOf(inst[y].path)
            IN  /\ \A d \in 0..(Len(P) - 1) :
                      /\ Prefix(P, d) \in DOMAIN tree
                      /\ HasChild(tree, Prefix(P, d), P[d + 1])
                /\ P \in DOMAIN tree
                /\ tree[P].instanceRef = y
                /\ \A f \in (IF inst[y].ctor = ArrayCtor THEN {ArrayFactory} ELSE Factories) :
                      LET r == Lookup(y, f)
                      IN  r.outcome = "hit" /\ r.ret = y /\ r.made = 0

\* X was stored under P and collected, Y was stored under P before X's
\* callback, and X's callback has just been delivered while Y is alive
C15_Witness ==
    /\ last.op = "finalize"
    /\ inst[last.ret].path = last.path /\ ~Live(last.ret)
    /\ \E y \in Successors : y > last.ret /\ Pending(y)

(* ---- C16 ---- *)

\* a step that is the delivery of a callback
FinalizeStep == last'.op = "finalize" /\ registry' # registry

\* the callback's path was not all there: some key of it led to no node
PartialPath == last'.walked < Len(last'.path)

\* q is a node on the way along path
OnPath(q, path) == Len(q) <= Len(path) /\ q = Prefix(Keys(path), Len(q))

\* C16 as stated: a callback delivered for a path that is no longer all in
\* the tree leaves the tree as it was.
C16_PartialPathIsNoOp ==
    [][(FinalizeStep /\ PartialPath) => tree' = tree]_vars

\* C16, amended: a callback delivered for a path that is no longer all in
\* the tree deals with the nodes of the path that are left as with a whole
\* path. It changes no node off the path; it unlinks a node only if that
\* node has no live instance and no child left; it changes an instance
\* reference only by clearing one whose instance is collected; and it leaves
\* the tree as it was when the deepest node left of the path holds a live
\* instance.
C16_PartialPathPrunesPrefix ==
    [][(FinalizeStep /\ PartialPath) =>
        /\ \A q \in DOMAIN tree :
              ~OnPath(q, last'.path) => q \in DOMAIN tree' /\ tree'[q] = tree[q]
        /\ \A q \in DOMAIN tree \ DOMAIN tree' :
              /\ q # RootPath
              /\ Deref(inst, tree[q].instanceRef) = 0
              /\ \A key \in tree[q].children.keys : OnPath(Append(q, key), last'.path)
        /\ \A q \in DOMAIN tree \cap DOMAIN tree' :
              \/ tree'[q].instanceRef = tree[q].instanceRef
              \/ tree'[q].instanceRef = 0 /\ Deref(inst, tree[q].instanceRef) = 0
        /\ Deref(inst, tree[Prefix(Keys(last'.path), last'.walked)].instanceRef) # 0
              => tree' = tree
    ]_vars

\* a callback has just been delivered for a path whose terminal node an
\* earlier callback had unlinked, and has unlinked the node of a collected
\* instance stored under a prefix of the path, whose own callback is still
\* to come
C16_Witness ==
    /\ last.op = "finalize" /\ last.walked < Len(last.path)
    /\ \E y \in StoredDead :
          /\ OnPath(NodeOf(inst[y].path), last.path)
          /\ NodeOf(inst[y].path) \notin DOMAIN tree
          /\ inst[y].pruned /\ Pending(y)

(* ---- C17 ---- *)

\* the nodes on the way along path that are linked in t
LeftOnPath(t, path) == {q \in DOMAIN t : OnPath(q, path)}

\* C17: the callback for path P makes no node and changes no node off P; it
\* never unlinks the root; a node it unlinks has no live instance and no
\* child but one on P that it unlinks too; of the nodes on P it leaves, all
\* but the deepest are as they were, and the deepest is the root, or has a
\* child or a live instance.
C17_PruningStepRule ==
    [][FinalizeStep =>
        LET P == last'.path
            left == LeftOnPath(tree', P)
        IN  /\ DOMAIN tree' \subseteq DOMAIN tree
            /\ RootPath \in DOMAIN tree'
            /\ \A q \in DOMAIN tree :
                  ~OnPath(q, P) => q \in DOMAIN tree' /\ tree'[q] = tree[q]
            /\ \A q \in DOMAIN tree \ DOMAIN tree' :
                  /\ Deref(inst, tree[q].instanceRef) = 0
                  /\ \A key \in tree[q].children.keys : OnPath(Append(q, key), P)
            /\ \A q \in left :
                  IF \E q2 \in left : Len(q2) > Len(q)
                  THEN tree'[q] = tree[q]
                  ELSE \/ q = RootPath
                       \/ tree'[q].children.keys # {}
                       \/ Deref(inst, tree'[q].instanceRef) # 0
    ]_vars

\* a callback has just unlinked the terminal node of its path and stopped
\* at the node above it, which holds a live instance
C17_Witness ==
    /\ last.op = "finalize" /\ last.walked = Len(last.path)
    /\ NodeOf(last.path) \notin DOMAIN tree
    /\ \E x \in StoredLive :
          /\ Len(inst[x].path) = Len(last.path) - 1
          /\ OnPath(NodeOf(inst[x].path), last.path)
          /\ tree[NodeOf(inst[x].path)].instanceRef = x

(* ---- C18 ---- *)

\* a step that is a call of a public method
CallStep == calls' = calls + 1

\* C18: a call, however it ends, unlinks no node, takes no child from a
\* node, and changes the instance reference of a node only by putting a new
\* instance, stored under the path of that node, where there was none or a
\* collected one; a step that unlinks a node is the delivery of a callback.
C18_CallsOnlyGrow ==
    [][/\ CallStep =>
            /\ DOMAIN tree \subseteq DOMAIN tree'
            /\ \A q \in DOMAIN tree :
                  /\ tree[q].children.keys \subseteq tree'[q].children.keys
                  /\ tree'[q].children.null => tree[q].children.null
                  /\ \/ tree'[q].instanceRef = tree[q].instanceRef
                     \/ /\ Deref(inst, tree[q].instanceRef) = 0
                        /\ tree'[q].instanceRef > Len(inst)
                        /\ NodeOf(inst'[tree'[q].instanceRef].path) = q
       /\ ~(DOMAIN tree \subseteq DOMAIN tree') => FinalizeStep
    ]_vars

\* a call has just put a new instance into the node that referenced a
\* collected one, the tree having kept all its nodes
C18_Witness ==
    /\ IsCall /\ last.outcome = "miss"
    /\ tree[NodeOf(last.path)].instanceRef = last.ret
    /\ \E x \in StoredBefore : ~Live(x) /\ \A i \in Ids : ~inst[i].pruned

(* ---- C19 ---- *)

\* the registrations of instance i in bag reg
RegistrationsOf(reg, i) == {r \in BagToSet(reg) : r.target = i}

\* what is registered is a stored instance, once, with the path it was
\* stored under; and a stored instance that is alive is registered
RegisteredOnce(in, reg) ==
    /\ \A r \in BagToSet(reg) :
          /\ r.target \in 1..Len(in)
          /\ in[r.target].path # <<>> /\ r.path = in[r.target].path
          /\ CopiesIn(r, reg) = 1
    /\ \A i \in 1..Len(in) :
          (in[i].path # <<>> /\ in[i].alive) => RegistrationsOf(reg, i) # {}

\* C19: a call that is a hit leaves the tree, the objects and the registry
\* as they were: the factory makes nothing and nothing is registered. A step
\* registers only instances it has made, so at every moment a stored
\* instance has been registered once, with the path it was stored under.
C19_HitHasNoEffect ==
    [][/\ (CallStep /\ last'.outcome = "hit") =>
            /\ tree' = tree /\ inst' = inst /\ registry' = registry
            /\ last'.made = 0
       /\ \A r \in BagToSet(registry') :
             CopiesIn(r, registry') > CopiesIn(r, registry) =>
                 r.target > Len(inst) /\ r.target <= Len(inst')
       /\ RegisteredOnce(inst, registry) /\ RegisteredOnce(inst', registry')
    ]_vars

\* a call has just hit an instance that another call had stored, and the
\* one registration of it is still there
C19_Witness ==
    /\ IsCall /\ last.outcome = "hit" /\ calls = 2
    /\ Cardinality(RegistrationsOf(registry, last.ret)) = 1
    /\ BagCardinality(registry) = Len(inst)

(* ---- C20 ---- *)

\* the interned instances that are components of the path of instance o
ComponentsOf(o) == InstKeys(inst[o].path)

====
